---- MODULE Spec2Model ----
(***************************************************************************)
(* Model of the open-source-project REST service (main.go).                *)
(*                                                                         *)
(* One projectHandlers value (a sync.Mutex and the map db) is shared by    *)
(* the goroutines net/http starts, one per request.  Every handler is cut  *)
(* into steps at its accesses to the shared state: the unlocked reads of   *)
(* len(h.db), h.Lock(), the locked section, and the response.  The first   *)
(* step of a handler takes the request and runs post through its gates,    *)
(* getAll through make, getProject through the test of the path, and the   *)
(* other two handlers to their return.                                     *)
(*                                                                         *)
(* Strings the code takes apart or builds (URLs, identifiers) are          *)
(* sequences of one-character strings; strings it only copies (names,      *)
(* header values, passwords) are TLA+ strings.                             *)
(*                                                                         *)
(* CreatedAt and UpdatedAt (time.Now()) are written once and never read    *)
(* by any handler; the model leaves the two fields out.                    *)
(***************************************************************************)
EXTENDS Integers, Sequences, FiniteSets, TLC

\* Goroutines serving requests at the same time.
NumWorkers == 2
\* Requests accepted in one behaviour.
MaxRequests == 3

Workers == 1..NumWorkers
\* The value of the mutex once the request that locked it is gone.
Orphaned == NumWorkers + 1

(***************************************************************************)
(* Strings                                                                 *)
(***************************************************************************)
Digit == <<"0", "1", "2", "3", "4", "5", "6", "7", "8", "9">>

RECURSIVE Itoa(_)
\* fmt.Sprint of a non-negative int: its decimal digits.
Itoa(n) == IF n < 10 THEN <<Digit[n + 1]>>
           ELSE Itoa(n \div 10) \o <<Digit[(n % 10) + 1]>>

RECURSIVE Split(_, _)
\* strings.Split(s, sep) for a one-character sep: the pieces between the
\* separators, Count(sep) + 1 of them, empty pieces included.
Split(s, sep) ==
    IF \A i \in 1..Len(s) : s[i] # sep THEN <<s>>
    ELSE LET k == CHOOSE i \in 1..Len(s) :
                      s[i] = sep /\ \A j \in 1..(i - 1) : s[j] # sep
         IN  <<SubSeq(s, 1, k - 1)>> \o Split(SubSeq(s, k + 1, Len(s)), sep)

CollectionPath == <<"/", "o", "p", "e", "n", "s", "o", "u", "r", "c", "e",
                    "/", "p", "r", "o", "j", "e", "c", "t", "s">>
ItemPattern == CollectionPath \o <<"/">>
AdminPath == <<"/", "a", "d", "m", "i", "n">>

HasPrefix(s, p) == Len(s) >= Len(p) /\ SubSeq(s, 1, Len(p)) = p

\* (*URL).String() of a request URL: the path, then "?" and the raw query
\* when there is one.
URLString(r) == IF r.query = <<>> THEN r.path ELSE r.path \o <<"?">> \o r.query

(***************************************************************************)
(* Values                                                                  *)
(***************************************************************************)
\* A []string: nil, or its elements.
NilSlice == [nil |-> TRUE, elems |-> <<>>]
Slice(s) == [nil |-> FALSE, elems |-> s]

\* OpenSourceProject
Project(id, name, issues, prs) ==
    [ID |-> id, Name |-> name, OpenIssues |-> issues, OpenPRs |-> prs]
ZeroProject == Project(<<>>, "", NilSlice, NilSlice)

SeedProject(n, name) ==
    Project(Itoa(n), name, Slice(<<"1", "2">>), Slice(<<"1", "2">>))

\* newProjectHandlers: the map literal, as the entries in bucket order.
SeedDB == << [key |-> <<"1">>, val |-> SeedProject(1, "Project 1")],
             [key |-> <<"2">>, val |-> SeedProject(2, "Project 2")],
             [key |-> <<"3">>, val |-> SeedProject(3, "Project 3")] >>

(***************************************************************************)
(* The map db: its entries in the order of their slots.                    *)
(***************************************************************************)
MapLen(m) == Len(m)
MapKeys(m) == {m[i].key : i \in 1..Len(m)}
MapHas(m, k) == \E i \in 1..Len(m) : m[i].key = k
\* v, ok := m[k]: ok is MapHas(m, k), v the value stored or the zero value.
MapVal(m, k) == IF MapHas(m, k)
                THEN m[CHOOSE i \in 1..Len(m) : m[i].key = k].val
                ELSE ZeroProject
\* m[k] = v: the entry of k is replaced in place, a new key takes the next slot.
MapSet(m, k, v) ==
    IF MapHas(m, k)
    THEN [i \in 1..Len(m) |-> IF m[i].key = k THEN [key |-> k, val |-> v] ELSE m[i]]
    ELSE Append(m, [key |-> k, val |-> v])
\* for _, v := range m: the runtime starts at a slot it picks at random and
\* wraps around; the orders are the rotations of the slot order.
RangeOrders(m) ==
    {[i \in 1..Len(m) |-> m[((i - 1 + s) % Len(m)) + 1].val] : s \in 0..(Len(m) - 1)}

(***************************************************************************)
(* JSON                                                                    *)
(***************************************************************************)
\* A JSON value of a request body: absent, null, a string, a number or an
\* array of strings.
JAbsent == [t |-> "absent", s |-> "", a |-> <<>>]
JNull == [t |-> "null", s |-> "", a |-> <<>>]
JString(s) == [t |-> "string", s |-> s, a |-> <<>>]
JNumber(s) == [t |-> "number", s |-> s, a |-> <<>>]
JArray(a) == [t |-> "array", s |-> "", a |-> a]

\* A request body: text that is JSON or not, and for an object the three
\* members the decoder looks for.
JObject(name, issues, prs) ==
    [syntax |-> TRUE, top |-> "object", name |-> name, open_issues |-> issues,
     open_prs |-> prs]
NotJSON == [syntax |-> FALSE, top |-> "", name |-> JAbsent,
            open_issues |-> JAbsent, open_prs |-> JAbsent]

\* CreateOpenSourceProjectReq
CreateReq(name, issues, prs) == [Name |-> name, OpenIssues |-> issues, OpenPRs |-> prs]
ZeroCreateReq == CreateReq("", NilSlice, NilSlice)

\* Decoding one member into a string field / a []string field: absent and
\* null leave the zero value, a value of another JSON type is an error.
StringFieldOK(v) == v.t \in {"absent", "null", "string"}
StringField(v) == IF v.t = "string" THEN v.s ELSE ""
SliceFieldOK(v) == v.t \in {"absent", "null", "array"}
SliceField(v) == IF v.t = "array" THEN Slice(v.a) ELSE NilSlice

\* json.Unmarshal(bodyBytes, &body): the error text ("" for nil) and the value.
Unmarshal(b) ==
    IF ~b.syntax THEN [err |-> "invalid character", val |-> ZeroCreateReq]
    ELSE IF b.top = "null" THEN [err |-> "", val |-> ZeroCreateReq]
    ELSE IF b.top # "object"
         THEN [err |-> "json: cannot unmarshal " \o b.top, val |-> ZeroCreateReq]
    ELSE [err |-> IF StringFieldOK(b.name) /\ SliceFieldOK(b.open_issues)
                     /\ SliceFieldOK(b.open_prs)
                  THEN "" ELSE "json: cannot unmarshal field",
          val |-> CreateReq(StringField(b.name), SliceField(b.open_issues),
                            SliceField(b.open_prs))]

\* json.Marshal of a []string: null for nil, else the array.
MarshalSlice(s) == IF s.nil THEN JNull ELSE JArray(s.elems)
\* json.Marshal of an OpenSourceProject: the object with the struct's tags.
MarshalProject(p) ==
    [id |-> p.ID, name |-> p.Name, open_issues |-> MarshalSlice(p.OpenIssues),
     open_prs |-> MarshalSlice(p.OpenPRs)]

(***************************************************************************)
(* Responses                                                               *)
(***************************************************************************)
\* A response body: nothing, text, one JSON object or a JSON array.
EmptyBody == [kind |-> "empty", text |-> "", json |-> <<>>]
TextBody(t) == [kind |-> "text", text |-> t, json |-> <<>>]
ObjectBody(p) == [kind |-> "object", text |-> "", json |-> <<MarshalProject(p)>>]
ArrayBody(ps) == [kind |-> "array", text |-> "",
                  json |-> [i \in 1..Len(ps) |-> MarshalProject(ps[i])]]

\* status 0: no header written yet.
NoResponse == [status |-> 0, ctype |-> "", body |-> EmptyBody]
\* w.WriteHeader(code): the first call decides the status.
WriteHeader(r, code) == IF r.status = 0 THEN [r EXCEPT !.status = code] ELSE r
\* w.Header().Add("content-type", v): has an effect before the header is written.
AddContentType(r, v) == IF r.status = 0 THEN [r EXCEPT !.ctype = v] ELSE r
\* w.Write(b): writes the header with 200 when none was written.
Write(r, b) == [WriteHeader(r, 200) EXCEPT !.body = b]
\* The server ends a response whose handler returned: 200 when nothing was written.
Finish(r) == WriteHeader(r, 200)

(***************************************************************************)
(* Requests                                                                *)
(***************************************************************************)
\* r.BasicAuth(): ok is false when the request has no usable Basic
\* Authorization header.
NoAuth == [ok |-> FALSE, user |-> "", pass |-> ""]
BasicAuth(user, pass) == [ok |-> TRUE, user |-> user, pass |-> pass]

\* bodyErr: the error io.ReadAll meets reading the body ("" for nil).
Request(method, path, query, ct, bodyErr, body, auth) ==
    [method |-> method, path |-> path, query |-> query, ct |-> ct,
     bodyErr |-> bodyErr, body |-> body, auth |-> auth]
NoRequest == Request("", <<>>, <<>>, "", "", NotJSON, NoAuth)

\* ADMIN_PASSWORD, which newAdminPortal requires to be non-empty.
AdminPassword == "secret"

BodyX == JObject(JString("X"), JArray(<<>>), JArray(<<>>))
BodyY == JObject(JString("Y"), JArray(<<"7">>), JAbsent)
BodyBadType == JObject(JNumber("5"), JAbsent, JAbsent)

PostRequest(ct, bodyErr, body) == Request("POST", CollectionPath, <<>>, ct, bodyErr, body, NoAuth)
GetRequest(path, query) == Request("GET", path, query, "", "", NotJSON, NoAuth)

CollectionRequests ==
    { GetRequest(CollectionPath, <<>>),
      PostRequest("application/json", "", BodyX),
      PostRequest("application/json", "", BodyY),
      PostRequest("application/json", "", NotJSON),
      PostRequest("application/json", "", BodyBadType),
      PostRequest("application/json; charset=utf-8", "", BodyX),
      PostRequest("text/plain", "", NotJSON),
      PostRequest("text/plain", "unexpected EOF", NotJSON),
      Request("PUT", CollectionPath, <<>>, "application/json", "", BodyX, NoAuth) }

ItemRequests ==
    { GetRequest(ItemPattern \o <<"1">>, <<>>),
      GetRequest(ItemPattern \o <<"4">>, <<>>),
      GetRequest(ItemPattern, <<>>),
      GetRequest(ItemPattern \o <<"1", "/", "x">>, <<>>),
      GetRequest(ItemPattern \o <<"1">>, <<"a", "=", "/">>),
      Request("POST", ItemPattern \o <<"1">>, <<>>, "application/json", "", BodyX, NoAuth) }

AdminRequests ==
    { GetRequest(AdminPath, <<>>),
      Request("GET", AdminPath, <<>>, "", "", NotJSON, BasicAuth("admin", AdminPassword)),
      Request("GET", AdminPath, <<>>, "", "", NotJSON, BasicAuth("admin", "guess")),
      Request("GET", AdminPath, <<>>, "", "", NotJSON, BasicAuth("root", AdminPassword)) }

Requests == CollectionRequests \cup ItemRequests \cup AdminRequests

(***************************************************************************)
(* Dispatch                                                                *)
(***************************************************************************)
\* The three patterns main registers: two exact paths and one subtree.
Mux(path) == IF path = CollectionPath THEN "projects"
             ELSE IF path = AdminPath THEN "admin"
             ELSE IF HasPrefix(path, ItemPattern) THEN "getProject"
             ELSE "notFound"

\* ProjectsSwitch with GET as the default case.
ProjectsSwitchDefaultGet(method) == IF method = "POST" THEN "post" ELSE "getAll"

\* projects: the switch on r.Method.
ProjectsSwitch(method) == IF method = "GET" THEN "getAll"
                          ELSE IF method = "POST" THEN "post"
                          ELSE "methodNotAllowed"

\* The handler code a request runs.
Entry(r) == IF Mux(r.path) = "projects" THEN ProjectsSwitch(r.method) ELSE Mux(r.path)

\* The requests that run each piece of handler code.
Routed(entry) == {r \in Requests : Entry(r) = entry}
ToPost == Routed("post")
ToGetAll == Routed("getAll")
ToMethodNotAllowed == Routed("methodNotAllowed")
ToGetProject == Routed("getProject")
ToAdmin == Routed("admin")

(***************************************************************************)
(* State                                                                   *)
(***************************************************************************)
VARIABLES
    db,       \* h.db, the entries in slot order
    mu,       \* h.Mutex: 0 when unlocked, w when the request worker w serves
              \* locked it, Orphaned when the request that locked it is gone
    pc,       \* pc[w]: the statement worker w runs next
    req,      \* req[w]: the request worker w serves
    loc,      \* loc[w]: the handler's local variables
    resp,     \* resp[w]: the response written so far
    nreq,     \* requests accepted so far
    ncreated  \* the number of creates that returned

vars == <<db, mu, pc, req, loc, resp, nreq, ncreated>>

\* The locals of the handlers.  parsed: json.Unmarshal was called.  quiet (of
\* getAll): no create has run at any time since this request was accepted.
NoLocals == [body |-> ZeroCreateReq, project |-> ZeroProject, projects |-> <<>>,
             id |-> <<>>, ok |-> FALSE, parsed |-> FALSE, quiet |-> TRUE]

PostLabels == {"post_new", "post_lock", "post_write"}
InPost(w) == pc[w] \in PostLabels
GetAllLabels == {"getAll_lock", "getAll_copy", "getAll_respond"}
InGetAll(w) == pc[w] \in GetAllLabels

Init ==
    /\ db = SeedDB
    /\ mu = 0
    /\ pc = [w \in Workers |-> "idle"]
    /\ req = [w \in Workers |-> NoRequest]
    /\ loc = [w \in Workers |-> NoLocals]
    /\ resp = [w \in Workers |-> NoResponse]
    /\ nreq = 0
    /\ ncreated = 0

\* A worker whose goroutine has ended, or that has not served yet.
Ended(w) == pc[w] \in {"idle", "done", "panicked"}

\* The server starts the handler of a request on a new goroutine: worker w,
\* the free worker of the lowest number (which one makes no difference),
\* whose last request leaves the state here.
Free(w) ==
    /\ Ended(w)
    /\ \A v \in Workers : v < w => ~Ended(v)
    /\ nreq < MaxRequests

Start(w, r) ==
    /\ nreq' = nreq + 1
    /\ req' = [req EXCEPT ![w] = r]

\* The locals once worker w has started on r with the locals mine.
StartLocals(w, r, mine) ==
    [v \in Workers |->
       IF v = w THEN mine
       ELSE IF r \in ToPost /\ req[v] \in ToGetAll THEN [loc[v] EXCEPT !.quiet = FALSE]
       ELSE loc[v]]

(***************************************************************************)
(* post                                                                    *)
(***************************************************************************)
\* PostGates with the body decoded before the content type is looked at.
PostGatesParseFirst(r) ==
    IF r.bodyErr # ""
    THEN [status |-> 500, text |-> r.bodyErr, parsed |-> FALSE, val |-> ZeroCreateReq]
    ELSE LET u == Unmarshal(r.body)
         IN  IF u.err # ""
             THEN [status |-> 400, text |-> u.err, parsed |-> TRUE, val |-> ZeroCreateReq]
             ELSE IF r.ct # "application/json"
             THEN [status |-> 415,
                   text |-> "need content-type application-json, but got " \o r.ct,
                   parsed |-> TRUE, val |-> ZeroCreateReq]
             ELSE [status |-> 0, text |-> "", parsed |-> TRUE, val |-> u.val]

\* post up to its last early return: the three gates in the order of the
\* code.  status 0: every gate passed and val is the decoded body.
PostGates(r) ==
    IF r.bodyErr # ""
    THEN [status |-> 500, text |-> r.bodyErr, parsed |-> FALSE, val |-> ZeroCreateReq]
    ELSE IF r.ct # "application/json"
    THEN [status |-> 415,
          text |-> "need content-type application-json, but got " \o r.ct,
          parsed |-> FALSE, val |-> ZeroCreateReq]
    ELSE LET u == Unmarshal(r.body)
         IN  IF u.err # ""
             THEN [status |-> 400, text |-> u.err, parsed |-> TRUE, val |-> ZeroCreateReq]
             ELSE [status |-> 0, text |-> "", parsed |-> TRUE, val |-> u.val]

\* AfterGates without the return after an error response.
AfterGatesNoReturn(g) == "post_new"

\* The label after the gates.
AfterGates(g) == IF g.status # 0 THEN "done" ELSE "post_new"

\* A POST on the collection path: io.ReadAll, the content-type check and
\* json.Unmarshal, each with its early return.
post(w) ==
    /\ Free(w)
    /\ \E r \in ToPost :
        /\ Start(w, r)
        /\ LET g == PostGates(r)
           IN  /\ loc' = StartLocals(w, r, [NoLocals EXCEPT !.parsed = g.parsed,
                                                           !.body = g.val])
               /\ resp' = [resp EXCEPT ![w] =
                             IF g.status # 0
                             THEN Finish(Write(WriteHeader(NoResponse, g.status),
                                               TextBody(g.text)))
                             ELSE NoResponse]
               /\ pc' = [pc EXCEPT ![w] = AfterGates(g)]
        /\ UNCHANGED <<db, mu, ncreated>>

\* NewID skipping one identifier.
NewIDPlusTwo(m) == Itoa(MapLen(m) + 2)

\* NewID counting from zero.
NewIDNoPlusOne(m) == Itoa(MapLen(m))

\* The identifier of the project post builds.
NewID(m) == Itoa(MapLen(m) + 1)

\* openSourceProject := OpenSourceProject{ID: fmt.Sprint(len(h.db) + 1), ...}
post_new(w) ==
    /\ pc[w] = "post_new"
    /\ loc' = [loc EXCEPT ![w].project =
                 Project(NewID(db), loc[w].body.Name, loc[w].body.OpenIssues,
                         loc[w].body.OpenPRs)]
    /\ pc' = [pc EXCEPT ![w] = "post_lock"]
    /\ UNCHANGED <<db, mu, req, resp, nreq, ncreated>>

\* h.Lock()
post_lock(w) ==
    /\ pc[w] = "post_lock"
    /\ mu = 0
    /\ mu' = w
    /\ pc' = [pc EXCEPT ![w] = "post_write"]
    /\ UNCHANGED <<db, req, loc, resp, nreq, ncreated>>

\* Insert under a key counted again at the insert.
InsertAtCount(m, project) == MapSet(m, Itoa(MapLen(m) + 1), project)

\* h.db[openSourceProject.ID] = openSourceProject
Insert(m, project) == MapSet(m, project.ID, project)

\* The insert, h.Unlock(), and post returns without writing a response.
post_write(w) ==
    /\ pc[w] = "post_write"
    /\ db' = Insert(db, loc[w].project)
    /\ mu' = 0
    /\ resp' = [resp EXCEPT ![w] = Finish(resp[w])]
    /\ ncreated' = ncreated + 1
    /\ pc' = [pc EXCEPT ![w] = "done"]
    /\ UNCHANGED <<req, loc, nreq>>

(***************************************************************************)
(* getAll                                                                  *)
(***************************************************************************)
\* make([]OpenSourceProject, n)
Make(n) == [i \in 1..n |-> ZeroProject]

\* A GET on the collection path: projects := make([]OpenSourceProject, len(h.db))
getAll(w) ==
    /\ Free(w)
    /\ \E r \in ToGetAll :
        /\ Start(w, r)
        /\ loc' = StartLocals(w, r, [NoLocals EXCEPT
                                       !.projects = Make(MapLen(db)),
                                       !.quiet = \A u \in Workers : ~InPost(u)])
        /\ resp' = [resp EXCEPT ![w] = NoResponse]
        /\ pc' = [pc EXCEPT ![w] = "getAll_lock"]
        /\ UNCHANGED <<db, mu, ncreated>>

\* h.Lock()
getAll_lock(w) ==
    /\ pc[w] = "getAll_lock"
    /\ mu = 0
    /\ mu' = w
    /\ pc' = [pc EXCEPT ![w] = "getAll_copy"]
    /\ UNCHANGED <<db, req, loc, resp, nreq, ncreated>>

\* The range loop stores the i-th value it meets at projects[i].
CopyInto(projects, order) ==
    [i \in 1..Len(projects) |-> IF i <= Len(order) THEN order[i] ELSE projects[i]]

\* getAll_copy with h.Unlock() put off until the response is written.
getAll_copyKeepLock(w) ==
    /\ pc[w] = "getAll_copy"
    /\ \E order \in RangeOrders(db) :
          loc' = [loc EXCEPT ![w].projects = CopyInto(loc[w].projects, order)]
    /\ IF MapLen(db) <= Len(loc[w].projects)
       THEN /\ mu' = w
            /\ pc' = [pc EXCEPT ![w] = "getAll_respond"]
       ELSE /\ mu' = Orphaned
            /\ pc' = [pc EXCEPT ![w] = "panicked"]
    /\ UNCHANGED <<db, req, resp, nreq, ncreated>>

\* The loop and h.Unlock().  A store at an index that projects does not have
\* panics: the loop ends there, h.Unlock() is not reached, and the server
\* recovers the panic and drops the connection.
getAll_copy(w) ==
    /\ pc[w] = "getAll_copy"
    /\ \E order \in RangeOrders(db) :
          loc' = [loc EXCEPT ![w].projects = CopyInto(loc[w].projects, order)]
    /\ IF MapLen(db) <= Len(loc[w].projects)
       THEN /\ mu' = 0
            /\ pc' = [pc EXCEPT ![w] = "getAll_respond"]
       ELSE /\ mu' = Orphaned
            /\ pc' = [pc EXCEPT ![w] = "panicked"]
    /\ UNCHANGED <<db, req, resp, nreq, ncreated>>

\* json.Marshal(projects), which cannot fail on this type, and the response.
getAll_respond(w) ==
    /\ pc[w] = "getAll_respond"
    /\ resp' = [resp EXCEPT ![w] =
                  Finish(Write(AddContentType(resp[w], "application/json"),
                               ArrayBody(loc[w].projects)))]
    /\ pc' = [pc EXCEPT ![w] = "done"]
    /\ UNCHANGED <<db, mu, req, loc, nreq, ncreated>>

(***************************************************************************)
(* getProject                                                              *)
(***************************************************************************)
\* parts := strings.Split(r.URL.String(), "/")
Parts(r) == Split(URLString(r), "/")

\* getProject refusing every method but GET.
getProjectGetOnly(w) ==
    /\ Free(w)
    /\ \E r \in ToGetProject :
        /\ Start(w, r)
        /\ IF r.method # "GET"
           THEN /\ resp' = [resp EXCEPT ![w] = Finish(WriteHeader(NoResponse, 405))]
                /\ loc' = StartLocals(w, r, NoLocals)
                /\ pc' = [pc EXCEPT ![w] = "done"]
           ELSE IF Len(Parts(r)) # 4
           THEN /\ resp' = [resp EXCEPT ![w] = Finish(WriteHeader(NoResponse, 400))]
                /\ loc' = StartLocals(w, r, NoLocals)
                /\ pc' = [pc EXCEPT ![w] = "done"]
           ELSE /\ resp' = [resp EXCEPT ![w] = NoResponse]
                /\ loc' = StartLocals(w, r, [NoLocals EXCEPT !.id = Parts(r)[4]])
                /\ pc' = [pc EXCEPT ![w] = "getProject_lock"]
        /\ UNCHANGED <<db, mu, ncreated>>

\* A request on the item path: the check of len(parts), and id := parts[3].
getProject(w) ==
    /\ Free(w)
    /\ \E r \in ToGetProject :
        /\ Start(w, r)
        /\ IF Len(Parts(r)) # 4
           THEN /\ resp' = [resp EXCEPT ![w] = Finish(WriteHeader(NoResponse, 400))]
                /\ loc' = StartLocals(w, r, NoLocals)
                /\ pc' = [pc EXCEPT ![w] = "done"]
           ELSE /\ resp' = [resp EXCEPT ![w] = NoResponse]
                /\ loc' = StartLocals(w, r, [NoLocals EXCEPT !.id = Parts(r)[4]])
                /\ pc' = [pc EXCEPT ![w] = "getProject_lock"]
        /\ UNCHANGED <<db, mu, ncreated>>

\* h.Lock()
getProject_lock(w) ==
    /\ pc[w] = "getProject_lock"
    /\ mu = 0
    /\ mu' = w
    /\ pc' = [pc EXCEPT ![w] = "getProject_lookup"]
    /\ UNCHANGED <<db, req, loc, resp, nreq, ncreated>>

\* getProject_lookup storing the zero value under an identifier it misses.
getProject_lookupStoreMissing(w) ==
    /\ pc[w] = "getProject_lookup"
    /\ loc' = [loc EXCEPT ![w].project = MapVal(db, loc[w].id),
                          ![w].ok = MapHas(db, loc[w].id)]
    /\ db' = IF MapHas(db, loc[w].id) THEN db ELSE MapSet(db, loc[w].id, ZeroProject)
    /\ mu' = 0
    /\ pc' = [pc EXCEPT ![w] = "getProject_respond"]
    /\ UNCHANGED <<req, resp, nreq, ncreated>>

\* project, ok := h.db[id]; h.Unlock()
getProject_lookup(w) ==
    /\ pc[w] = "getProject_lookup"
    /\ loc' = [loc EXCEPT ![w].project = MapVal(db, loc[w].id),
                          ![w].ok = MapHas(db, loc[w].id)]
    /\ mu' = 0
    /\ pc' = [pc EXCEPT ![w] = "getProject_respond"]
    /\ UNCHANGED <<db, req, resp, nreq, ncreated>>

\* ProjectResponse without the check of ok.
ProjectResponseNoCheck(r, ok, project) ==
    Write(AddContentType(r, "application/json"), ObjectBody(project))

\* The response of getProject after the lookup.
ProjectResponse(r, ok, project) ==
    IF ~ok THEN WriteHeader(r, 404)
    ELSE Write(AddContentType(r, "application/json"), ObjectBody(project))

\* The check of ok, json.Marshal(project) and the response.
getProject_respond(w) ==
    /\ pc[w] = "getProject_respond"
    /\ resp' = [resp EXCEPT ![w] = Finish(ProjectResponse(resp[w], loc[w].ok, loc[w].project))]
    /\ pc' = [pc EXCEPT ![w] = "done"]
    /\ UNCHANGED <<db, mu, req, loc, nreq, ncreated>>

(***************************************************************************)
(* projects (default case) and the admin portal                            *)
(***************************************************************************)
\* default: w.WriteHeader(http.StatusMethodNotAllowed); w.Write(...)
methodNotAllowed(w) ==
    /\ Free(w)
    /\ \E r \in ToMethodNotAllowed :
        /\ Start(w, r)
        /\ resp' = [resp EXCEPT ![w] =
                      Finish(Write(WriteHeader(NoResponse, 405),
                                   TextBody("Method not allowed")))]
        /\ loc' = StartLocals(w, r, NoLocals)
        /\ pc' = [pc EXCEPT ![w] = "done"]
        /\ UNCHANGED <<db, mu, ncreated>>

\* Authorized without the comparison of the user name.
AuthorizedAnyUser(a, password) == a.ok /\ a.pass = password

\* The check adminPortal.handler makes of the credentials.
Authorized(a, password) == a.ok /\ a.user = "admin" /\ a.pass = password

\* adminPortal.handler
admin(w) ==
    /\ Free(w)
    /\ \E r \in ToAdmin :
        /\ Start(w, r)
        /\ resp' = [resp EXCEPT ![w] =
                      IF ~Authorized(r.auth, AdminPassword)
                      THEN Finish(WriteHeader(NoResponse, 401))
                      ELSE Finish(Write(NoResponse,
                             TextBody("<html><h1> Welcome to the admin dashboard </h1></html>")))]
        /\ loc' = StartLocals(w, r, NoLocals)
        /\ pc' = [pc EXCEPT ![w] = "done"]
        /\ UNCHANGED <<db, mu, ncreated>>

(***************************************************************************)
(* Specification                                                           *)
(***************************************************************************)
Next ==
    \E w \in Workers :
        \/ post(w)
        \/ post_new(w)
        \/ post_lock(w)
        \/ post_write(w)
        \/ getAll(w)
        \/ getAll_lock(w)
        \/ getAll_copy(w)
        \/ getAll_respond(w)
        \/ getProject(w)
        \/ getProject_lock(w)
        \/ getProject_lookup(w)
        \/ getProject_respond(w)
        \/ methodNotAllowed(w)
        \/ admin(w)

Spec == Init /\ [][Next]_vars

(***************************************************************************)
(* Properties                                                              *)
(***************************************************************************)
\* Worker w takes the step.
StepOf(w) == pc'[w] # pc[w] \/ (nreq' # nreq /\ Free(w))

\* The statements of a handler at which it holds the mutex.
LockedLabels == {"post_write", "getAll_copy", "getProject_lookup"}
\* The statements that read or write h.db.
MapAccessLabels == {"post_new", "post_write", "getAll_copy", "getProject_lookup"}

\* A create that returned after its insert.
CreateDone(w) == pc[w] = "done" /\ req[w] \in ToPost /\ resp[w].status = 200

\* A body that is not the JSON of a create request: not JSON at all, not an
\* object (or null), or a member of the wrong type.
Malformed(b) ==
    \/ ~b.syntax
    \/ b.top \notin {"object", "null"}
    \/ b.top = "object" /\ \/ b.name.t \in {"number", "array"}
                           \/ b.open_issues.t \in {"number", "string"}
                           \/ b.open_prs.t \in {"number", "string"}
\* The first gate of create that request r fails: the status it gets, 0 for none.
FirstFailedGate(r) ==
    IF r.bodyErr # "" THEN 500
    ELSE IF r.ct # "application/json" THEN 415
    ELSE IF Malformed(r.body) THEN 400
    ELSE 0

\* C1: once k creates have returned, the store holds 3 + k projects.
C1_StoreGrowsByOne == MapLen(db) = 3 + ncreated

\* C2: a handler that is at a statement reading or writing the mapping holds
\* the store lock.
C2_MapAccessUnderLock == \A w \in Workers : pc[w] \in MapAccessLabels => mu = w

\* C3: when enumerate holds the lock and copies, its sequence is as long as
\* the store is, and the copy never stores outside the sequence.
C3_EnumerateSnapshot ==
    \A w \in Workers :
        /\ pc[w] = "getAll_copy" => Len(loc[w].projects) = MapLen(db)
        /\ pc[w] # "panicked"

\* C4: the store lock is held only by a request that is running and is between
\* its Lock and its Unlock: no request ends holding it.
C4_LockReleased == mu # 0 => mu \in Workers /\ pc[mu] \in LockedLabels

\* C5: a record stored under an identifier stays there unchanged.
C5_RecordsImmutable ==
    [][\A i \in 1..Len(db) :
          \E j \in 1..Len(db') : db'[j].key = db[i].key /\ db'[j].val = db[i].val]_vars

\* C6: a fetch-by-id that looks up the identifier assigned to a create that has
\* returned finds a project with the name, open issues and open PRs of that create.
C6_FetchAfterCreate ==
    [][\A v \in Workers :
          pc[v] = "getProject_lookup" /\ pc'[v] = "getProject_respond" =>
             \A w \in Workers :
                CreateDone(w) /\ loc[w].project.ID = loc[v].id =>
                   /\ loc'[v].ok
                   /\ loc'[v].project.Name = loc[w].body.Name
                   /\ loc'[v].project.OpenIssues = loc[w].body.OpenIssues
                   /\ loc'[v].project.OpenPRs = loc[w].body.OpenPRs]_vars

\* C7: an enumerate during which no create ran returns as many projects as
\* three plus the creates that returned, all distinct.
C7_EnumerateCount ==
    \A w \in Workers :
        pc[w] = "done" /\ req[w] \in ToGetAll /\ loc[w].quiet =>
           /\ Len(resp[w].body.json) = 3 + ncreated
           /\ \A i, j \in 1..Len(resp[w].body.json) :
                 i # j => resp[w].body.json[i] # resp[w].body.json[j]

C9_GateOrder ==
    \A w \in Workers :
        req[w] \in ToPost =>
           /\ FirstFailedGate(req[w]) # 0 =>
                 pc[w] = "done" /\ resp[w].status = FirstFailedGate(req[w])
           /\ FirstFailedGate(req[w]) = 0 => resp[w].status \notin {500, 415, 400}
           /\ loc[w].parsed <=> FirstFailedGate(req[w]) \in {0, 400}

\* A create with a wrong content type and a malformed body got 415.
C9_Witness ==
    \E w \in Workers :
        /\ pc[w] = "done" /\ req[w] \in ToPost
        /\ req[w].ct # "application/json" /\ req[w].bodyErr = ""
        /\ Malformed(req[w].body)
        /\ resp[w].status = 415

\* C10: a create request that fails a gate ends in its first step with the
\* status of that gate, and that step leaves the store and the lock as they were.
C10_FailedCreateNoEffect ==
    [][\A w \in Workers :
          StepOf(w) /\ req'[w] \in ToPost /\ FirstFailedGate(req'[w]) # 0 =>
             /\ db' = db
             /\ mu' = mu
             /\ mu' # w
             /\ pc'[w] = "done"]_vars

\* A create with a body of the wrong type got 400 while the store holds a
\* created project.
C10_Witness ==
    \E w \in Workers :
        /\ pc[w] = "done" /\ req[w] \in ToPost
        /\ req[w].body = BodyBadType
        /\ resp[w].status = 400
        /\ MapLen(db) > 3

\* What follows the collection path and its "/" in the path of request r.
Trailing(r) == SubSeq(r.path, Len(ItemPattern) + 1, Len(r.path))
\* The path of r is the collection path and one more segment (which may be
\* empty): nothing that follows the collection path's "/" is a "/".
OneTrailingSegment(r) == \A i \in 1..Len(Trailing(r)) : Trailing(r)[i] # "/"

\* C11: fetch-by-id answers 400 with an empty body, and never reaches the
\* lookup, exactly when the path of the request (its query string set aside)
\* is not the collection path and one trailing segment; a request whose path
\* has one trailing segment is looked up by that segment.
C11_PathBoundary ==
    \A w \in Workers :
        req[w] \in ToGetProject =>
            IF OneTrailingSegment(req[w])
            THEN /\ resp[w].status # 400
                 /\ loc[w].id = Trailing(req[w])
            ELSE /\ pc[w] = "done"
                 /\ resp[w] = [status |-> 400, ctype |-> "", body |-> EmptyBody]


\* C12: the admin endpoint answers 200 with the welcome page when the request
\* carries Basic credentials with the user name "admin" and the configured
\* password, and only then; every other request gets 401 with an empty body,
\* the same response whatever was wrong.
C12_AdminAuth ==
    \A w \in Workers :
        req[w] \in ToAdmin =>
            /\ pc[w] = "done"
            /\ IF req[w].auth.ok /\ req[w].auth.user = "admin" /\ req[w].auth.pass = AdminPassword
               THEN resp[w] = [status |-> 200, ctype |-> "",
                               body |-> TextBody("<html><h1> Welcome to the admin dashboard </h1></html>")]
               ELSE resp[w] = [status |-> 401, ctype |-> "", body |-> EmptyBody]
\* The portal has answered one request with the welcome page and refused one
\* that had the right password under another user name.
C12_Witness ==
    \E w, v \in Workers :
        /\ req[w] \in ToAdmin /\ resp[w].status = 200
        /\ req[v] \in ToAdmin /\ resp[v].status = 401
        /\ req[v].auth.ok /\ req[v].auth.pass = AdminPassword


\* Worker w takes the step, and the step is the first of a new request.
Starts(w) == nreq' # nreq /\ Free(w)

\* C13: on the collection path a GET runs enumerate and a POST runs create,
\* whatever else the request carries; any other method is answered 405 with
\* the body "Method not allowed" in a step that leaves the store and its lock
\* alone and reaches no statement of enumerate or create.
C13_MethodDispatch ==
    [][\A w \in Workers :
          Starts(w) /\ req'[w].path = CollectionPath =>
             CASE req'[w].method = "GET" ->
                    /\ pc'[w] = "getAll_lock"
                    /\ Len(loc'[w].projects) = MapLen(db)
               [] req'[w].method = "POST" ->
                    \/ pc'[w] = "post_new"
                    \/ pc'[w] = "done" /\ resp'[w].status \in {400, 415, 500}
               [] OTHER ->
                    /\ pc'[w] = "done"
                    /\ resp'[w] = [status |-> 405, ctype |-> "",
                                   body |-> TextBody("Method not allowed")]
                    /\ loc'[w] = NoLocals
                    /\ db' = db /\ mu' = mu]_vars
\* A PUT on the collection path was answered 405 after a create had stored a
\* project.
C13_Witness ==
    \E w \in Workers :
        /\ req[w].path = CollectionPath /\ req[w].method = "PUT"
        /\ pc[w] = "done" /\ resp[w].status = 405
        /\ MapLen(db) > 3


\* C14: every project in the store is stored under the key that is its own
\* identifier, and no two projects in the store have the same identifier.
C14_KeyIsID ==
    /\ \A i \in 1..Len(db) : db[i].key = db[i].val.ID
    /\ \A i, j \in 1..Len(db) : db[i].val.ID = db[j].val.ID => i = j
\* Two creates have returned and one overwrote the other's project: the store
\* holds the three seeds and one created project.
C14_Witness == ncreated = 2 /\ MapLen(db) = 4 /\ \A w \in Workers : CreateDone(w)


\* The statements that read a request body, parse JSON, serialize a response
\* or write one: the first step of a handler, taken from where the worker's
\* last request ended, and the two responses.
IOLabels == {"idle", "done", "panicked", "getAll_respond", "getProject_respond"}

\* C15: a handler that is about to read a body, parse JSON, serialize or
\* write a response does not hold the store lock; a handler holds it only at
\* the statements that touch the mapping.
C15_NoIOUnderLock ==
    \A w \in Workers :
        /\ pc[w] \in IOLabels => mu # w
        /\ mu = w => pc[w] \in MapAccessLabels
\* One request is about to serialize its response while another holds the lock.
C15_Witness ==
    \E w, v \in Workers :
        /\ pc[w] \in {"getAll_respond", "getProject_respond"}
        /\ mu = v /\ v # w


(***************************************************************************)
(* Creates issued one at a time                                            *)
(***************************************************************************)
\* No create is under way: the clients of SpecSequential send a POST on the
\* collection path only then.
NoCreateUnderWay == \A v \in Workers : ~InPost(v)

NextSequential ==
    \E w \in Workers :
        \/ NoCreateUnderWay /\ post(w)
        \/ post_new(w)
        \/ post_lock(w)
        \/ post_write(w)
        \/ getAll(w)
        \/ getAll_lock(w)
        \/ getAll_copy(w)
        \/ getAll_respond(w)
        \/ getProject(w)
        \/ getProject_lock(w)
        \/ getProject_lookup(w)
        \/ getProject_respond(w)
        \/ methodNotAllowed(w)
        \/ admin(w)

SpecSequential == Init /\ [][NextSequential]_vars

\* C16 (under SpecSequential): when each create ends before the next starts,
\* the create that follows k - 1 returned creates is given the identifier
\* 3 + k in decimal, which is no key of the store before its insert; the
\* first is stored under "4", and every returned create has added a project.
C16_SequentialIDs ==
    /\ \A w \in Workers :
          pc[w] \in {"post_lock", "post_write"} =>
             /\ loc[w].project.ID = Itoa(3 + ncreated + 1)
             /\ ~MapHas(db, loc[w].project.ID)
    /\ \A k \in 1..ncreated : MapHas(db, Itoa(3 + k))
    /\ ncreated >= 1 => MapHas(db, <<"4">>)
    /\ MapLen(db) = 3 + ncreated
\* Two creates have returned, the second stored under "5".
C16_Witness == ncreated = 2 /\ MapHas(db, <<"5">>) /\ \E w \in Workers : CreateDone(w)


\* C17: the store changes only in the insert of a create whose request passed
\* the three gates; no step of enumerate, of fetch-by-id, of the admin
\* endpoint or of a 405 changes it, and the insert writes one key: the
\* project's identifier gets the project, every other key keeps its value
\* and no key goes away.
C17_Frame ==
    [][/\ db' # db =>
            \E w \in Workers :
                /\ pc[w] = "post_write" /\ pc'[w] = "done"
                /\ req[w].method = "POST" /\ req[w].path = CollectionPath
                /\ FirstFailedGate(req[w]) = 0
       /\ \A w \in Workers :
            StepOf(w) /\ ~(req'[w].method = "POST" /\ req'[w].path = CollectionPath)
               => db' = db
       /\ \A w \in Workers :
            pc[w] = "post_write" /\ pc'[w] = "done" =>
               /\ MapKeys(db') = MapKeys(db) \cup {loc[w].project.ID}
               /\ MapVal(db', loc[w].project.ID) = loc[w].project
               /\ \A k \in MapKeys(db) \ {loc[w].project.ID} :
                     MapVal(db', k) = MapVal(db, k)]_vars
\* A create has stored a project, and a fetch-by-id was answered 404 and one 400.
C17_Witness ==
    /\ MapLen(db) > 3
    /\ \E w \in Workers : CreateDone(w)
    /\ \E v \in Workers :
          req[v] \in ToGetProject /\ pc[v] = "done" /\ resp[v].status \in {400, 404}


\* Two answered requests on the item path, the second a GET, with the same
\* path and query, that met the same store: no create has returned yet, or
\* the path names a seed project.
SameFetch(w, v) ==
    /\ req[w] \in ToGetProject /\ req[v] \in ToGetProject
    /\ req[v].method = "GET"
    /\ req[w].path = req[v].path /\ req[w].query = req[v].query
    /\ pc[w] = "done" /\ pc[v] = "done"
    /\ \/ ncreated = 0
       \/ req[w].query = <<>> /\ MapHas(SeedDB, Trailing(req[w]))
\* Every request on the item path got the response a GET with its path and
\* query got from the same store.
AnsweredAsGet ==
    \A w, v \in Workers :
        SameFetch(w, v) => resp[w].status = resp[v].status /\ resp[w].body = resp[v].body

\* C18: on the item path the method makes no difference: a request with any
\* method gets the status and the body a GET with the same path gets from the
\* same store, and no step of it changes the store.
C18_MethodIgnored ==
    [][/\ AnsweredAsGet'
       /\ \A w \in Workers : StepOf(w) /\ req'[w] \in ToGetProject => db' = db]_vars
\* After a create has returned, a POST and a GET on the path of seed project 1
\* were both answered 200.
C18_Witness ==
    \E w, v \in Workers :
        /\ SameFetch(w, v) /\ req[w].method = "POST"
        /\ resp[w].status = 200 /\ resp[v].status = 200
        /\ ncreated > 0


\* The decimal strings of 1..n.
Decimals(n) == {Itoa(i) : i \in 1..n}

\* C19: whatever the interleaving of creates, the keys of the store are the
\* decimal strings of 1..n for the store's size n, and the identifier a
\* create is about to insert is at most the size of the store plus one.
C19_KeysContiguous ==
    /\ MapKeys(db) = Decimals(MapLen(db))
    /\ \A w \in Workers :
          pc[w] \in {"post_lock", "post_write"} =>
             loc[w].project.ID \in Decimals(MapLen(db) + 1)
\* A create holds the lock and is about to insert under an identifier that
\* another create has taken meanwhile.
C19_Witness ==
    \E w \in Workers :
        /\ pc[w] = "post_write" /\ MapHas(db, loc[w].project.ID)
        /\ MapLen(db) > 3

\* The number a string of decimal digits stands for.
DigitValue(c) == CHOOSE d \in 0..9 : Digit[d + 1] = c
RECURSIVE Atoi(_)
Atoi(s) == IF s = <<>> THEN 0
           ELSE 10 * Atoi(SubSeq(s, 1, Len(s) - 1)) + DigitValue(s[Len(s)])

\* C20: the three seed projects stay in the store as they were seeded,
\* through every sequence of requests and every collision of creates: the
\* identifier of every create is 4 or more.
C20_SeedsKept ==
    /\ \A k \in {<<"1">>, <<"2">>, <<"3">>} :
          MapHas(db, k) /\ MapVal(db, k) = MapVal(SeedDB, k)
    /\ \A w \in Workers :
          pc[w] \in {"post_lock", "post_write"} \/ CreateDone(w) =>
             Atoi(loc[w].project.ID) >= 4
\* Two creates with different names have returned, both given the same
\* identifier.
C20_Witness ==
    \E w, v \in Workers :
        /\ CreateDone(w) /\ CreateDone(v)
        /\ loc[w].project.ID = loc[v].project.ID
        /\ loc[w].project.Name # loc[v].project.Name

====
